---- MODULE Spec2Model ----
(***************************************************************************)
(* A model of mbtiles_s3_server.py: the four request handlers (get_tile,   *)
(* get_styles, get_fonts, get_static) over the catalog dictionaries built  *)
(* by mbtiles_s3_server(), the start/stop/main life cycle, and the         *)
(* configuration decoder normalise_environment().                          *)
(*                                                                         *)
(* A Python str is a sequence of characters.  In the server part a quoted  *)
(* word such as "counties" stands for a run of characters holding neither *)
(* '@' nor ','; in a font stack and a range it holds no '.' either.  The   *)
(* separators are elements of their own.  In the decoder part every        *)
(* element is one character.                                               *)
(***************************************************************************)
EXTENDS Integers, Sequences, FiniteSets, TLC

VARIABLES
    mbtiles_dict,   \* (identifier, version) -> configured entry
    styles_dict,    \* (identifier, version, file) -> template bytes
    statics_dict,   \* (identifier, version, file) -> [bytes, mime]
    fonts_dict,     \* (identifier, version) -> extracted directory
    http_client,    \* the one shared httpx.Client: "open" or "closed"
    tempdirs,       \* the extracted directories that still exist
    listening,      \* the WSGIServer's listening socket is open
    main_pc,        \* where main() is
    log,            \* what main() has logged
    reqs,           \* per connection slot: the request being served
    key_values,     \* the decoder's input, an ordered dict as <<key, value>> pairs
    decoded         \* the decoder's result, or NotRun

catalog == <<mbtiles_dict, styles_dict, statics_dict, fonts_dict>>
lifecycle == <<http_client, tempdirs, listening, main_pc, log>>
decoder == <<key_values, decoded>>
vars == <<mbtiles_dict, styles_dict, statics_dict, fonts_dict, http_client,
          tempdirs, listening, main_pc, log, reqs, key_values, decoded>>

(***************************************************************************)
(* Bounds of the model.                                                    *)
(***************************************************************************)
MaxZoom == 3        \* tile requests range over zoom levels 0..MaxZoom
MaxInFlight == 2    \* connection slots of the concurrent specification
MaxSegments == 4    \* key segments of a generated decoder input, all keys together

(***************************************************************************)
(* Python values.                                                          *)
(***************************************************************************)
Pow2(z) == 2^z
None == [t |-> "None"]
Bytes(b) == [t |-> "bytes", v |-> b]
Raise(exc) == [t |-> "raise", exc |-> exc]
W(w) == <<w>>

\* str.split(sep): the pieces between the non-overlapping occurrences of sep,
\* found left to right
RECURSIVE split(_, _)
split(s, sep) ==
    LET n == Len(sep)
        hits == {i \in 1..(Len(s) - n + 1) : SubSeq(s, i, i + n - 1) = sep}
    IN  IF hits = {} THEN <<s>>
        ELSE LET i == CHOOSE h \in hits : \A g \in hits : h <= g
             IN  <<SubSeq(s, 1, i - 1)>> \o split(SubSeq(s, i + n, Len(s)), sep)

\* sep.join(parts)
RECURSIVE join(_, _)
join(parts, sep) ==
    IF parts = <<>> THEN <<>>
    ELSE IF Len(parts) = 1 THEN parts[1]
    ELSE parts[1] \o sep \o join(Tail(parts), sep)

\* `c in s` for a character c
contains(s, c) == \E i \in 1..Len(s) : s[i] = c

(***************************************************************************)
(* The world outside the process: the remote archives, the bundled files.  *)
(***************************************************************************)
\* the rows of the tiles table of the archive at a URL; (zoom_level,
\* tile_column, tile_row) is unique; tile_data is a blob or NULL
ArchiveRows(url) ==
    IF url = "s3://bucket/counties.mbtiles" THEN
        { [zoom_level |-> 0, tile_column |-> 0, tile_row |-> 0, tile_data |-> Bytes(<<"t000">>)],
          [zoom_level |-> 1, tile_column |-> 0, tile_row |-> 1, tile_data |-> Bytes(<<"t101">>)],
          [zoom_level |-> 1, tile_column |-> 1, tile_row |-> 0, tile_data |-> None],
          [zoom_level |-> 1, tile_column |-> 1, tile_row |-> 1, tile_data |-> Bytes(<<>>)],
          [zoom_level |-> 2, tile_column |-> 1, tile_row |-> 2, tile_data |-> Bytes(<<"t212">>)],
          [zoom_level |-> 3, tile_column |-> 2, tile_row |-> 5, tile_data |-> Bytes(<<"t325">>)] }
    ELSE IF url = "s3://bucket/roads.mbtiles" THEN
        { [zoom_level |-> 1, tile_column |-> 0, tile_row |-> 0, tile_data |-> Bytes(<<"r100">>)] }
    ELSE {}

\* the glyph files of fonts.tar.gz, as <<font directory, file name>> -> bytes
GlyphFiles ==
    [p \in { <<W("Open Sans Regular"), <<"0-255", ".pbf.gz">> >>,
             <<W("Open Sans Regular"), <<"256-511", ".pbf.gz">> >>,
             <<W("Arial Unicode"), <<"0-255", ".pbf.gz">> >> }
        |-> <<"glyphs:" , p[1][1], p[2][1]>>]

\* a font name longer than the file system's longest file name
LongName == W("a-name-of-300-characters")
TooLong(name) == name = LongName


(***************************************************************************)
(* mbtiles_s3_server(): the catalog.                                       *)
(***************************************************************************)
\* the decoded MBTILES lists the model starts from
counties == [IDENTIFIER |-> W("counties"), VERSION |-> W("1"),
             URL |-> "s3://bucket/counties.mbtiles"]
roads == [IDENTIFIER |-> W("roads"), VERSION |-> W("2"),
          URL |-> "s3://bucket/roads.mbtiles"]
stale == [IDENTIFIER |-> W("counties"), VERSION |-> W("1"),
          URL |-> "s3://bucket/roads.mbtiles"]
MbtilesConfigs == { <<counties>>, <<stale, counties, roads>> }

\* {(mbtile['IDENTIFIER'], mbtile['VERSION']): mbtile for mbtile in mbtiles}:
\* a later entry replaces an earlier one with the same key
make_mbtiles_dict(mbtiles) ==
    LET keyOf(m) == <<m.IDENTIFIER, m.VERSION>>
        keys == {keyOf(mbtiles[i]) : i \in 1..Len(mbtiles)}
        last(k) == CHOOSE i \in 1..Len(mbtiles) :
                      /\ keyOf(mbtiles[i]) = k
                      /\ \A j \in 1..Len(mbtiles) : keyOf(mbtiles[j]) = k => j <= i
    IN  [k \in keys |-> mbtiles[last(k)]]

make_styles_dict ==
    [k \in { <<W("positron-gl-style"), W("1.8"), W("style.json")>> }
        |-> <<"positron-style-template">>]

make_statics_dict ==
    [k \in { <<W("maplibre-gl"), W("2.1.9"), W("maplibre-gl.css")>>,
             <<W("maplibre-gl"), W("2.1.9"), W("maplibre-gl.js")>> }
        |-> IF k[3] = W("maplibre-gl.css")
            THEN [bytes |-> <<"maplibre-css">>, mime |-> "text/css"]
            ELSE [bytes |-> <<"maplibre-js">>, mime |-> "application/javascript"]]

make_fonts_dict == [k \in { <<W("fonts-gl"), W("2.0")>> } |-> "tmpdir-fonts-gl"]

(***************************************************************************)
(* Responses.  A body is a sequence of byte runs.                          *)
(***************************************************************************)
Response(status, body, content_type, content_encoding) ==
    [t |-> "response", status |-> status, body |-> body,
     content_type |-> content_type, content_encoding |-> content_encoding]
Status(status) == Response(status, <<>>, "", "")

\* Flask: an exception no handler catches becomes a 500 response
wsgi_app(result) == IF result.t = "raise" THEN Status(500) ELSE result

(***************************************************************************)
(* get_tile                                                                *)
(***************************************************************************)
\* a variant that leaves the row in the request's top-left-origin convention
y_tms_unflipped(z, y) == y

y_tms(z, y) == (2^z - 1) - y

\* the SELECT ... WHERE zoom_level=? AND tile_column=? AND tile_row=? LIMIT 1
query(url, params) ==
    {row \in ArchiveRows(url) : /\ row.zoom_level = params[1]
                                /\ row.tile_column = params[2]
                                /\ row.tile_row = params[3]}

\* tile_data = None; for row in rows: tile_data = row[0]
last_tile_data(rows) ==
    IF rows = {} THEN None ELSE (CHOOSE row \in rows : TRUE).tile_data

get_tile_return(tile_data) ==
    IF tile_data # None
    THEN Response(200, tile_data.v, "application/vnd.mapbox-vector-tile", "gzip")
    ELSE Status(404)

\* a variant that answers a failed read like an absent tile
get_tile_swallowing(identifier, version, z, x, y, outcome) ==
    IF <<identifier, version>> \notin DOMAIN mbtiles_dict THEN Status(404)
    ELSE IF outcome # "ok" THEN Status(404)
    ELSE LET mbtiles_url == mbtiles_dict[<<identifier, version>>].URL
         IN  get_tile_return(last_tile_data(query(mbtiles_url, <<z, x, (Pow2(z) - 1) - y>>)))

\* outcome: "none" before the remote read, "ok" when it completes, "fail" when
\* sqlite_s3_query raises, which nothing here catches
get_tile(identifier, version, z, x, y, outcome) ==
    IF <<identifier, version>> \notin DOMAIN mbtiles_dict THEN Status(404)
    ELSE IF outcome # "ok" THEN Raise("HTTPError")
    ELSE LET mbtiles_url == mbtiles_dict[<<identifier, version>>].URL
         IN  get_tile_return(last_tile_data(query(mbtiles_url, <<z, x, y_tms(z, y)>>)))

(***************************************************************************)
(* get_styles                                                              *)
(***************************************************************************)
\* json.dumps of the template with the tile source and the glyphs URL set
style_document(style_bytes, url_root, tiles, fonts) ==
    <<"json">> \o style_bytes
      \o <<"sources.openmaptiles.tiles">> \o url_root \o <<"v1/tiles/">> \o tiles
      \o <<"/{z}/{x}/{y}.mvt">>
      \o <<"glyphs">> \o url_root \o <<"v1/fonts/">> \o fonts
      \o <<"/{fontstack}/{range}.pbf">>

\* a variant that validates the fonts parameter before the tiles parameter
get_styles_fonts_first(identifier, version, file, args, url_root) ==
    IF <<identifier, version, file>> \notin DOMAIN styles_dict THEN Status(404)
    ELSE IF "fonts" \notin DOMAIN args THEN Status(400)
    ELSE LET fonts == split(args["fonts"], <<"@">>) IN
    IF Len(fonts) # 2 THEN Status(400)
    ELSE IF <<fonts[1], fonts[2]>> \notin DOMAIN fonts_dict THEN Status(404)
    ELSE IF "tiles" \notin DOMAIN args THEN Status(400)
    ELSE LET tiles == split(args["tiles"], <<"@">>) IN
    IF Len(tiles) # 2 THEN Status(400)
    ELSE IF <<tiles[1], tiles[2]>> \notin DOMAIN mbtiles_dict THEN Status(404)
    ELSE Response(200,
                  style_document(styles_dict[<<identifier, version, file>>],
                                 url_root, args["tiles"], args["fonts"]),
                  "application/json", "")

get_styles(identifier, version, file, args, url_root) ==
    IF <<identifier, version, file>> \notin DOMAIN styles_dict THEN Status(404)
    ELSE IF "tiles" \notin DOMAIN args THEN Status(400)
    ELSE LET tiles == split(args["tiles"], <<"@">>) IN
    IF Len(tiles) # 2 THEN Status(400)
    ELSE IF <<tiles[1], tiles[2]>> \notin DOMAIN mbtiles_dict THEN Status(404)
    ELSE IF "fonts" \notin DOMAIN args THEN Status(400)
    ELSE LET fonts == split(args["fonts"], <<"@">>) IN
    IF Len(fonts) # 2 THEN Status(400)
    ELSE IF <<fonts[1], fonts[2]>> \notin DOMAIN fonts_dict THEN Status(404)
    ELSE Response(200,
                  style_document(styles_dict[<<identifier, version, file>>],
                                 url_root, args["tiles"], args["fonts"]),
                  "application/json", "")

(***************************************************************************)
(* get_fonts                                                               *)
(***************************************************************************)
\* os.path.join(font_path, font, range + '.pbf.gz'): an empty component adds
\* nothing
glyph_path(font_path, font, range) ==
    <<font_path>> \o (IF font = <<>> THEN <<>> ELSE <<font>>) \o <<range \o <<".pbf.gz">> >>

\* open(path, 'rb').read()
read(path) ==
    IF \E i \in 2..Len(path) : TooLong(path[i]) THEN Raise("OSError")
    ELSE IF path[1] \in tempdirs /\ Tail(path) \in DOMAIN GlyphFiles
    THEN Bytes(GlyphFiles[Tail(path)])
    ELSE Raise("FileNotFoundError")

\* b''.join(read(...) for font in fonts): the files are read in order and the
\* first exception ends it; opened lists the paths open() was called on
RECURSIVE join_reads(_, _, _)
join_reads(font_path, fonts, range) ==
    IF fonts = <<>> THEN [result |-> Bytes(<<>>), opened |-> <<>>]
    ELSE LET path == glyph_path(font_path, fonts[1], range)
             first == read(path)
         IN  IF first.t = "raise" THEN [result |-> first, opened |-> <<path>>]
             ELSE LET rest == join_reads(font_path, Tail(fonts), range)
                  IN  [result |-> IF rest.result.t = "raise" THEN rest.result
                                  ELSE Bytes(first.v \o rest.result.v),
                       opened |-> <<path>> \o rest.opened]

\* the stack the files are read for: stack.split('.')[0]
first_of_stack(stack) == split(stack, <<".">>)[1]

\* a variant without the test for '.'
get_fonts_unchecked(identifier, version, stack, range) ==
    IF <<identifier, version>> \notin DOMAIN fonts_dict
    THEN [result |-> Status(404), opened |-> <<>>]
    ELSE LET font_path == fonts_dict[<<identifier, version>>]
             got == join_reads(font_path, split(first_of_stack(stack), <<",">>), range)
         IN  IF got.result.t = "raise"
             THEN [result |-> IF got.result.exc = "FileNotFoundError"
                              THEN Status(404) ELSE got.result,
                   opened |-> got.opened]
             ELSE [result |-> Response(200, got.result.v, "", "gzip"),
                   opened |-> got.opened]

get_fonts(identifier, version, stack, range) ==
    IF <<identifier, version>> \notin DOMAIN fonts_dict
    THEN [result |-> Status(404), opened |-> <<>>]
    ELSE IF contains(stack, ".") \/ contains(range, ".")
    THEN [result |-> Status(404), opened |-> <<>>]
    ELSE LET font_path == fonts_dict[<<identifier, version>>]
             got == join_reads(font_path, split(first_of_stack(stack), <<",">>), range)
         IN  IF got.result.t = "raise"
             THEN [result |-> IF got.result.exc = "FileNotFoundError"
                              THEN Status(404) ELSE got.result,
                   opened |-> got.opened]
             ELSE [result |-> Response(200, got.result.v, "", "gzip"),
                   opened |-> got.opened]

(***************************************************************************)
(* get_static                                                              *)
(***************************************************************************)
\* a variant that looks the asset up by identifier and file alone
get_static_any_version(identifier, version, file) ==
    IF \E k \in DOMAIN statics_dict : k[1] = identifier /\ k[3] = file
    THEN LET static_dict == statics_dict[CHOOSE k \in DOMAIN statics_dict :
                                            k[1] = identifier /\ k[3] = file]
         IN  Response(200, static_dict.bytes, static_dict.mime, "")
    ELSE Status(404)

get_static(identifier, version, file) ==
    IF <<identifier, version, file>> \notin DOMAIN statics_dict THEN Status(404)
    ELSE LET static_dict == statics_dict[<<identifier, version, file>>]
         IN  Response(200, static_dict.bytes, static_dict.mime, "")

(***************************************************************************)
(* Requests, as the router hands them to the handlers.                     *)
(***************************************************************************)
TileKeys == { <<W("counties"), W("1")>>, <<W("roads"), W("2")>>, <<W("counties"), W("9")>> }
TileRequests ==
    { [family |-> "tiles", identifier |-> k[1], version |-> k[2], z |-> c[1], x |-> c[2], y |-> c[3]] :
        k \in TileKeys,
        c \in {c \in (0..MaxZoom) \X (0..(Pow2(MaxZoom) - 1)) \X (0..(Pow2(MaxZoom) - 1)) :
                 c[2] < Pow2(c[1]) /\ c[3] < Pow2(c[1])} }

ArgValues(name) ==
    IF name = "tiles"
    THEN { <<"counties", "@", "1">>, <<"counties">>, <<"counties", "@", "9">>,
           <<"counties", "@", "1", "@", "x">>, <<"@">> }
    ELSE { <<"fonts-gl", "@", "2.0">>, <<"fonts-gl">>, <<"fonts-gl", "@", "9">>,
           <<"fonts-gl", "@", "2.0", "@", "x">> }
QueryArgs ==
    UNION { [names -> ArgValues("tiles") \cup ArgValues("fonts")] : names \in SUBSET {"tiles", "fonts"} }
StyleArgs == {args \in QueryArgs : \A n \in DOMAIN args : args[n] \in ArgValues(n)}
StyleKeys == { <<W("positron-gl-style"), W("1.8"), W("style.json")>>,
               <<W("positron-gl-style"), W("1.8"), W("other.json")>>,
               <<W("positron-gl-style"), W("9"), W("style.json")>> }
StyleRequests ==
    { [family |-> "styles", identifier |-> k[1], version |-> k[2], file |-> k[3],
       args |-> a, url_root |-> <<"http://gateway/">>] : k \in StyleKeys, a \in StyleArgs }

FontKeys == { <<W("fonts-gl"), W("2.0")>>, <<W("fonts-gl"), W("9")>> }
FontStacks ==
    { <<"Open Sans Regular">>, <<"Arial Unicode">>, <<"Missing">>,
      <<"Open Sans Regular", ",", "Arial Unicode">>,
      <<"Open Sans Regular", ",", "Missing">>,
      <<"Missing", ",", "Open Sans Regular">>,
      <<"Open Sans Regular", ".", "x">>,
      <<",", "Open Sans Regular">>,
      LongName }
FontRanges == { <<"0-255">>, <<"256-511">>, <<"0-255", ".", "x">> }
FontRequests ==
    { [family |-> "fonts", identifier |-> k[1], version |-> k[2], stack |-> s, range |-> g] :
        k \in FontKeys, s \in FontStacks, g \in FontRanges }

StaticKeys == { <<W("maplibre-gl"), W("2.1.9"), W("maplibre-gl.css")>>,
                <<W("maplibre-gl"), W("2.1.9"), W("maplibre-gl.js")>>,
                <<W("maplibre-gl"), W("2.1.9"), W("other.js")>>,
                <<W("maplibre-gl"), W("9"), W("maplibre-gl.js")>> }
StaticRequests ==
    { [family |-> "static", identifier |-> k[1], version |-> k[2], file |-> k[3]] : k \in StaticKeys }

Requests == TileRequests \cup StyleRequests \cup FontRequests \cup StaticRequests

\* the requests of the concurrent specification: one of each kind
SampleRequests ==
    { [family |-> "tiles", identifier |-> W("counties"), version |-> W("1"), z |-> 1, x |-> 0, y |-> 0],
      [family |-> "tiles", identifier |-> W("counties"), version |-> W("9"), z |-> 1, x |-> 0, y |-> 0],
      [family |-> "styles", identifier |-> W("positron-gl-style"), version |-> W("1.8"),
       file |-> W("style.json"),
       args |-> [n \in {"tiles", "fonts"} |->
                    IF n = "tiles" THEN <<"counties", "@", "1">> ELSE <<"fonts-gl", "@", "2.0">>],
       url_root |-> <<"http://gateway/">>],
      [family |-> "fonts", identifier |-> W("fonts-gl"), version |-> W("2.0"),
       stack |-> <<"Open Sans Regular">>, range |-> <<"0-255">>],
      [family |-> "static", identifier |-> W("maplibre-gl"), version |-> W("2.1.9"),
       file |-> W("maplibre-gl.js")] }

(***************************************************************************)
(* The server: one greenlet per accepted connection.  A handler runs       *)
(* without interruption up to its remote read; get_tile is the only        *)
(* handler with one.                                                       *)
(***************************************************************************)
Slots == 1..MaxInFlight
NoReq == [family |-> "none"]
NoResp == [t |-> "none"]
Idle == [pc |-> "idle", req |-> NoReq, remote |-> "none", resp |-> NoResp, opened |-> <<>>]

InFlight(r) == reqs[r].pc # "idle"

\* the server accepts a connection and reads its request
Accept(r, q) ==
    /\ listening
    /\ reqs[r].pc = "idle"
    /\ reqs' = [reqs EXCEPT ![r] = [Idle EXCEPT !.pc = "accepted", !.req = q]]
    /\ UNCHANGED <<catalog, lifecycle, decoder>>

\* get_tile up to the remote read: the catalog lookup
GetTileBegin(r) ==
    /\ reqs[r].pc = "accepted"
    /\ reqs[r].req.family = "tiles"
    /\ LET q == reqs[r].req IN
       reqs' = [reqs EXCEPT ![r] =
                  IF <<q.identifier, q.version>> \in DOMAIN mbtiles_dict
                  THEN [@ EXCEPT !.pc = "querying"]
                  ELSE [@ EXCEPT !.pc = "done",
                          !.resp = wsgi_app(get_tile(q.identifier, q.version, q.z, q.x, q.y, "none"))]]
    /\ UNCHANGED <<catalog, lifecycle, decoder>>

\* the outcomes of a read over the shared client
ReadOutcomes == IF http_client = "open" THEN {"ok", "fail"} ELSE {"fail"}

\* the remote read completes or fails, and get_tile returns or raises
GetTileEnd(r) ==
    /\ reqs[r].pc = "querying"
    /\ \E outcome \in ReadOutcomes :
         LET q == reqs[r].req IN
         reqs' = [reqs EXCEPT ![r] =
                    [@ EXCEPT !.pc = "done", !.remote = outcome,
                       !.resp = wsgi_app(get_tile(q.identifier, q.version, q.z, q.x, q.y, outcome))]]
    /\ UNCHANGED <<catalog, lifecycle, decoder>>

\* a variant that keeps the composed document as the template
GetStylesInPlace(r) ==
    /\ reqs[r].pc = "accepted"
    /\ reqs[r].req.family = "styles"
    /\ LET q == reqs[r].req
           resp == wsgi_app(get_styles(q.identifier, q.version, q.file, q.args, q.url_root))
       IN  /\ reqs' = [reqs EXCEPT ![r] = [@ EXCEPT !.pc = "done", !.resp = resp]]
           /\ styles_dict' =
                 IF resp.status = 200
                 THEN [styles_dict EXCEPT ![<<q.identifier, q.version, q.file>>] = resp.body]
                 ELSE styles_dict
    /\ UNCHANGED <<mbtiles_dict, statics_dict, fonts_dict, lifecycle, decoder>>

GetStyles(r) ==
    /\ reqs[r].pc = "accepted"
    /\ reqs[r].req.family = "styles"
    /\ LET q == reqs[r].req IN
       reqs' = [reqs EXCEPT ![r] =
                  [@ EXCEPT !.pc = "done",
                     !.resp = wsgi_app(get_styles(q.identifier, q.version, q.file, q.args, q.url_root))]]
    /\ UNCHANGED <<catalog, lifecycle, decoder>>

GetFonts(r) ==
    /\ reqs[r].pc = "accepted"
    /\ reqs[r].req.family = "fonts"
    /\ LET q == reqs[r].req
           got == get_fonts(q.identifier, q.version, q.stack, q.range)
       IN  reqs' = [reqs EXCEPT ![r] =
                      [@ EXCEPT !.pc = "done", !.resp = wsgi_app(got.result),
                         !.opened = got.opened]]
    /\ UNCHANGED <<catalog, lifecycle, decoder>>

GetStatic(r) ==
    /\ reqs[r].pc = "accepted"
    /\ reqs[r].req.family = "static"
    /\ LET q == reqs[r].req IN
       reqs' = [reqs EXCEPT ![r] =
                  [@ EXCEPT !.pc = "done",
                     !.resp = wsgi_app(get_static(q.identifier, q.version, q.file))]]
    /\ UNCHANGED <<catalog, lifecycle, decoder>>

\* the response is written and the connection's greenlet ends
Respond(r) ==
    /\ reqs[r].pc = "done"
    /\ reqs' = [reqs EXCEPT ![r] = Idle]
    /\ UNCHANGED <<catalog, lifecycle, decoder>>

(***************************************************************************)
(* start, stop and main                                                    *)
(***************************************************************************)
\* SIGTERM runs stop(): server.stop() closes the listening socket and ends
\* serve_forever(), so start() returns to main()
Stop ==
    /\ main_pc = "start"
    /\ listening' = FALSE
    /\ main_pc' = "join"
    /\ UNCHANGED <<catalog, http_client, tempdirs, log, reqs, decoder>>

\* a variant that does not wait for the greenlets
hub_joined_at_once == TRUE

\* gevent.get_hub().join() returns when no greenlet is left to run
hub_joined == \A r \in Slots : ~InFlight(r)

HubJoin ==
    /\ main_pc = "join"
    /\ hub_joined
    /\ main_pc' = "exit_stack"
    /\ UNCHANGED <<catalog, http_client, tempdirs, listening, log, reqs, decoder>>

\* the with block ends: the ExitStack removes the extracted directories and
\* closes the client
ExitStackClose ==
    /\ main_pc = "exit_stack"
    /\ tempdirs' = {}
    /\ http_client' = "closed"
    /\ main_pc' = "log"
    /\ UNCHANGED <<catalog, listening, log, reqs, decoder>>

LogShutdown ==
    /\ main_pc = "log"
    /\ log' = Append(log, "Shut down gracefully")
    /\ main_pc' = "returned"
    /\ UNCHANGED <<catalog, http_client, tempdirs, listening, reqs, decoder>>

(***************************************************************************)
(* The specifications.                                                     *)
(***************************************************************************)
NotRun == [type |-> "not run"]

InitServer(configs) ==
    /\ \E mbtiles \in configs : mbtiles_dict = make_mbtiles_dict(mbtiles)
    /\ styles_dict = make_styles_dict
    /\ statics_dict = make_statics_dict
    /\ fonts_dict = make_fonts_dict
    /\ http_client = "open"
    /\ tempdirs = {make_fonts_dict[k] : k \in DOMAIN make_fonts_dict}
    /\ listening = TRUE
    /\ main_pc = "start"
    /\ log = <<>>
    /\ reqs = [r \in Slots |-> Idle]

Serve(slots, requests) ==
    \/ \E r \in slots, q \in requests : Accept(r, q)
    \/ \E r \in slots : GetTileBegin(r)
    \/ \E r \in slots : GetTileEnd(r)
    \/ \E r \in slots : GetStyles(r)
    \/ \E r \in slots : GetFonts(r)
    \/ \E r \in slots : GetStatic(r)
    \/ \E r \in slots : Respond(r)
    \/ Stop
    \/ HubJoin
    \/ ExitStackClose
    \/ LogShutdown

\* one connection at a time, every request of Requests
Init == InitServer(MbtilesConfigs) /\ key_values = <<>> /\ decoded = NotRun
Next == Serve({1}, Requests)
Spec == Init /\ [][Next]_vars

\* concurrent connections; gevent runs every greenlet that can run, and a
\* remote read ends (httpx times out)
InitConc == InitServer({<<counties>>}) /\ key_values = <<>> /\ decoded = NotRun
NextConc == Serve(Slots, SampleRequests)
Fairness ==
    /\ \A r \in Slots : WF_vars(GetTileBegin(r)) /\ WF_vars(GetTileEnd(r))
                        /\ WF_vars(GetStyles(r)) /\ WF_vars(GetFonts(r))
                        /\ WF_vars(GetStatic(r)) /\ WF_vars(Respond(r))
    /\ WF_vars(HubJoin) /\ WF_vars(ExitStackClose) /\ WF_vars(LogShutdown)
SpecConc == InitConc /\ [][NextConc]_vars /\ Fairness

(***************************************************************************)
(* normalise_environment.  A dict is the sequence of its <<key, value>>    *)
(* items in insertion order; a result is a str, a dict or a list.          *)
(***************************************************************************)
Str(v) == [type |-> "str", str |-> v]
Dict(items) == [type |-> "dict", items |-> items]
List(values) == [type |-> "list", list |-> values]

\* the code point of a character
ord(c) ==
    CASE c = "+" -> 43 [] c = "-" -> 45
      [] c = "0" -> 48 [] c = "1" -> 49 [] c = "2" -> 50
      [] c = "A" -> 65 [] c = "X" -> 88 [] c = "Y" -> 89
      [] c = "_" -> 95

\* a < b for two str: by the first character that differs, a proper prefix first
str_less(a, b) ==
    \E i \in 1..Len(b) :
        /\ \A j \in 1..(i - 1) : j <= Len(a) /\ a[j] = b[j]
        /\ (i > Len(a) \/ (i <= Len(a) /\ ord(a[i]) < ord(b[i])))

\* sorted(items, key=...): stable; less[i, j] says that the key of items[i]
\* is less than the key of items[j]
sorted(items, less) ==
    LET n == Len(items)
        before(j, i) == less[j, i] \/ (~less[i, j] /\ j < i)
        pos(i) == Cardinality({j \in 1..n : before(j, i)}) + 1
    IN  [p \in 1..n |-> items[CHOOSE i \in 1..n : pos(i) = p]]

separator == <<"_", "_">>

get_first_component(key) == split(key, separator)[1]

get_later_components(key) == join(Tail(split(key, separator)), separator)

without_more_components(items) ==
    SelectSeq(items, LAMBDA item : get_later_components(item[1]) = <<>>)

with_more_components(items) ==
    SelectSeq(items, LAMBDA item : get_later_components(item[1]) # <<>>)

\* itertools.groupby over the items sorted by first component: the runs of
\* equal first component, as <<first_component, items>>
grouped_by_first_component(items) ==
    LET by_first_component(item) == get_first_component(item[1])
        s == sorted(items, [i, j \in 1..Len(items) |->
                              str_less(by_first_component(items[i]), by_first_component(items[j]))])
        starts == {i \in 1..Len(s) : i = 1 \/ by_first_component(s[i - 1]) # by_first_component(s[i])}
        start(g) == CHOOSE i \in starts : Cardinality({j \in starts : j < i}) = g - 1
        end(g) == IF g = Cardinality(starts) THEN Len(s) ELSE start(g + 1) - 1
    IN  [g \in 1..Cardinality(starts) |->
            <<by_first_component(s[start(g)]), SubSeq(s, start(g), end(g))>>]

items_with_first_component(items, first_component) ==
    LET kept == SelectSeq(items, LAMBDA item : get_first_component(item[1]) = first_component)
    IN  [i \in 1..Len(kept) |-> <<get_later_components(kept[i][1]), kept[i][2]>>]

\* d[key] = value: a key the dict holds keeps its place
dict_set(d, key, value) ==
    IF \E i \in 1..Len(d) : d[i][1] = key
    THEN [i \in 1..Len(d) |-> IF d[i][1] = key THEN <<key, value>> ELSE d[i]]
    ELSE Append(d, <<key, value>>)

\* {**a, **b}
RECURSIVE dict_merge(_, _)
dict_merge(a, b) ==
    IF b = <<>> THEN a ELSE dict_merge(dict_set(a, b[1][1], b[1][2]), Tail(b))

Digits == {"0", "1", "2"}
DigitValue(c) == ord(c) - 48

\* int(string) does not raise: an optional sign, then digits, single
\* underscores allowed between two digits
is_int(string) ==
    LET signed == string # <<>> /\ string[1] \in {"+", "-"}
        body == IF signed THEN Tail(string) ELSE string
    IN  /\ body # <<>>
        /\ \A i \in 1..Len(body) :
              \/ body[i] \in Digits
              \/ /\ body[i] = "_"
                 /\ 1 < i /\ i < Len(body)
                 /\ body[i - 1] \in Digits /\ body[i + 1] \in Digits

RECURSIVE digits_value(_)
digits_value(body) ==
    IF body = <<>> THEN 0
    ELSE IF body[Len(body)] = "_" THEN digits_value(SubSeq(body, 1, Len(body) - 1))
    ELSE 10 * digits_value(SubSeq(body, 1, Len(body) - 1)) + DigitValue(body[Len(body)])

\* int(string)
int(string) ==
    IF string[1] = "-" THEN 0 - digits_value(Tail(string))
    ELSE IF string[1] = "+" THEN digits_value(Tail(string))
    ELSE digits_value(string)

all_keys_are_ints(nested_structured_dict) ==
    \A i \in 1..Len(nested_structured_dict) : is_int(nested_structured_dict[i][1])

\* a variant that keeps the dict's own order
list_in_dict_order(nested_structured_dict) ==
    [i \in 1..Len(nested_structured_dict) |-> nested_structured_dict[i][2]]

list_sorted_by_int_key(nested_structured_dict) ==
    LET s == sorted(nested_structured_dict,
                    [i, j \in 1..Len(nested_structured_dict) |->
                        int(nested_structured_dict[i][1]) < int(nested_structured_dict[j][1])])
    IN  [i \in 1..Len(s) |-> s[i][2]]

RECURSIVE normalise_environment(_)
normalise_environment(items) ==
    LET groups == grouped_by_first_component(with_more_components(items))
        leaves == [i \in 1..Len(without_more_components(items)) |->
                     <<without_more_components(items)[i][1],
                       Str(without_more_components(items)[i][2])>>]
        nested == [g \in 1..Len(groups) |->
                     <<groups[g][1],
                       normalise_environment(items_with_first_component(groups[g][2], groups[g][1]))>>]
        nested_structured_dict == dict_merge(leaves, nested)
    IN  IF all_keys_are_ints(nested_structured_dict)
        THEN List(list_sorted_by_int_key(nested_structured_dict))
        ELSE Dict(nested_structured_dict)

\* the flat inputs: distinct keys in every order, with up to MaxSegments
\* segments in all, each key with a value of its own
Segments == { <<"A">>, <<"2">>, <<"1", "0">>, <<"-", "1">> }
RECURSIVE KeysOfDepth(_)
KeysOfDepth(n) ==
    IF n = 1 THEN Segments
    ELSE {seg \o separator \o key : seg \in Segments, key \in KeysOfDepth(n - 1)}
RECURSIVE KeySequences(_)
KeySequences(n) ==
    {<<>>} \cup UNION { {<<key>> \o rest : key \in KeysOfDepth(d), rest \in KeySequences(n - d)} :
                          d \in 1..n }
ValueOf(i) == <<"value", ToString(i)>>
GeneratedEnvironments ==
    { [i \in 1..Len(keys) |-> <<keys[i], ValueOf(i)>>] :
        keys \in {ks \in KeySequences(MaxSegments) :
                    \A i, j \in 1..Len(ks) : i # j => ks[i] # ks[j]} }
\* the two documented examples, a key that is both a leaf and a prefix, keys
\* with a third underscore, a leading and a trailing separator, an underscore
\* between digits, keys of equal integer value
ExampleEnvironments ==
    { << <<<<"A", "_", "_", "0", "_", "_", "X">>, <<"1">> >>,
         <<<<"A", "_", "_", "1", "_", "_", "X">>, <<"2">> >> >>,
      << <<<<"A", "_", "_", "X">>, <<"1">> >>, <<<<"A", "_", "_", "Y">>, <<"2">> >> >>,
      << <<<<"A">>, <<"1">> >>, <<<<"X">>, <<"2">> >>, <<<<"A", "_", "_", "X">>, <<"3">> >> >>,
      << <<<<"A", "_", "_", "_", "X">>, <<"1">> >> >>,
      << <<<<"_", "_", "A">>, <<"1">> >> >>,
      << <<<<"0", "_", "_">>, <<"1">> >>, <<<<"1">>, <<"2">> >> >>,
      << <<<<"1", "_", "0">>, <<"1">> >>, <<<<"2">>, <<"2">> >>, <<<<"+", "1">>, <<"3">> >> >>,
      << <<<<"2">>, <<"1">> >>, <<<<"1", "0">>, <<"2">> >>, <<<<"0", "1">>, <<"3">> >>,
         <<<<"1">>, <<"4">> >> >> }
Environments == GeneratedEnvironments \cup ExampleEnvironments

\* env = normalise_environment(os.environ)
Decode ==
    /\ decoded = NotRun
    /\ decoded' = normalise_environment(key_values)
    /\ UNCHANGED <<catalog, lifecycle, reqs, key_values>>

InitDecode ==
    /\ InitServer({<<counties>>})
    /\ key_values \in Environments
    /\ decoded = NotRun
NextDecode == Decode
SpecDecode == InitDecode /\ [][NextDecode]_vars

(***************************************************************************)
(* What the claims speak of.                                               *)
(***************************************************************************)
Done(r, family) == reqs[r].pc = "done" /\ reqs[r].req.family = family
ServerError(status) == status \in 500..599

\* the rows an archive holds at native coordinates (z, x, 2^z - 1 - y)
NativeRows(url, z, x, y) ==
    {row \in ArchiveRows(url) :
        row.zoom_level = z /\ row.tile_column = x /\ row.tile_row + y = Pow2(z) - 1}

\* a tile request for an archive of the catalog, with the archive's URL
CatalogTile(r) ==
    /\ Done(r, "tiles")
    /\ <<reqs[r].req.identifier, reqs[r].req.version>> \in DOMAIN mbtiles_dict
TileUrl(r) == mbtiles_dict[<<reqs[r].req.identifier, reqs[r].req.version>>].URL
TileRows(r) == NativeRows(TileUrl(r), reqs[r].req.z, reqs[r].req.x, reqs[r].req.y)

\* C1 as stated: a tile request for an archive of the catalog whose read
\* completes is answered 200 with the stored bytes of the row at
\* (z, x, 2^z - 1 - y) when a row exists there, and 404 when none exists.
C1_AsStated ==
    \A r \in Slots : (CatalogTile(r) /\ reqs[r].remote = "ok") =>
        IF TileRows(r) # {}
        THEN /\ reqs[r].resp.status = 200
             /\ \E row \in TileRows(r) :
                   row.tile_data # None /\ reqs[r].resp.body = row.tile_data.v
        ELSE reqs[r].resp.status = 404

\* C1, amended: a tile request for an archive of the catalog whose read
\* completes is answered 200 with exactly the stored bytes of the row at
\* (z, x, 2^z - 1 - y) when a row exists there and its tile_data is not NULL,
\* and 404 when no row exists there or the row's tile_data is NULL.
C1_TileAtNativeRow ==
    \A r \in Slots : (CatalogTile(r) /\ reqs[r].remote = "ok") =>
        IF \E row \in TileRows(r) : row.tile_data # None
        THEN /\ reqs[r].resp.status = 200
             /\ \E row \in TileRows(r) :
                   row.tile_data # None /\ reqs[r].resp.body = row.tile_data.v
        ELSE reqs[r].resp.status = 404

\* the spec's example: z=3, x=2, y=2 is the row at native (3, 2, 5)
C1_Witness ==
    \E r \in Slots :
        /\ CatalogTile(r) /\ reqs[r].remote = "ok"
        /\ reqs[r].req.z = 3 /\ reqs[r].req.x = 2 /\ reqs[r].req.y = 2
        /\ reqs[r].resp.status = 200
        /\ reqs[r].resp.body = <<"t325">>

\* C2 as stated: on a tile request for an archive of the catalog a failed
\* remote read is answered 5xx, and a 404 is answered only when the read
\* completed and returned no row.
C2_AsStated ==
    \A r \in Slots : CatalogTile(r) =>
        /\ reqs[r].remote = "fail" => ServerError(reqs[r].resp.status)
        /\ reqs[r].resp.status = 404 => (reqs[r].remote = "ok" /\ TileRows(r) = {})

\* C2, amended: on a tile request for an archive of the catalog a failed
\* remote read is answered 5xx and never 404; a 404 is answered only when the
\* read completed and returned no row or a row whose tile_data is NULL.
C2_UpstreamFailureIs5xx ==
    \A r \in Slots : CatalogTile(r) =>
        /\ reqs[r].remote = "fail" =>
              (ServerError(reqs[r].resp.status) /\ reqs[r].resp.status # 404)
        /\ reqs[r].resp.status = 404 =>
              /\ reqs[r].remote = "ok"
              /\ \A row \in TileRows(r) : row.tile_data = None

C2_Witness ==
    \E r \in Slots :
        /\ CatalogTile(r) /\ reqs[r].remote = "fail"
        /\ TileRows(r) = {}
        /\ reqs[r].resp.status = 500

\* a reference with exactly one '@', as its two components
AtCount(s) == Cardinality({i \in 1..Len(s) : s[i] = "@"})
RefKey(s) ==
    LET i == CHOOSE j \in 1..Len(s) : s[j] = "@"
    IN  <<SubSeq(s, 1, i - 1), SubSeq(s, i + 1, Len(s))>>

\* the style handler's checks in the order of the spec, each with the status
\* its failure is answered with
StyleChecks(q) ==
    LET hasTiles == "tiles" \in DOMAIN q.args
        tilesOk == hasTiles /\ AtCount(q.args["tiles"]) = 1
        hasFonts == "fonts" \in DOMAIN q.args
        fontsOk == hasFonts /\ AtCount(q.args["fonts"]) = 1
    IN  << [fails |-> <<q.identifier, q.version, q.file>> \notin DOMAIN styles_dict, status |-> 404],
           [fails |-> ~hasTiles, status |-> 400],
           [fails |-> hasTiles /\ ~tilesOk, status |-> 400],
           [fails |-> tilesOk /\ RefKey(q.args["tiles"]) \notin DOMAIN mbtiles_dict, status |-> 404],
           [fails |-> ~hasFonts, status |-> 400],
           [fails |-> hasFonts /\ ~fontsOk, status |-> 400],
           [fails |-> fontsOk /\ RefKey(q.args["fonts"]) \notin DOMAIN fonts_dict, status |-> 404] >>

FirstFailure(checks) ==
    IF \E i \in 1..Len(checks) : checks[i].fails
    THEN checks[CHOOSE i \in 1..Len(checks) :
                   checks[i].fails /\ \A j \in 1..(i - 1) : ~checks[j].fails].status
    ELSE 200

\* C3: the style handler answers with the status of the first failing check
\* in the order template, tiles present, tiles well-formed, tile source
\* known, fonts present, fonts well-formed, font collection known; and 200
\* when none fails.
C3_StyleValidationOrder ==
    \A r \in Slots : Done(r, "styles") =>
        reqs[r].resp.status = FirstFailure(StyleChecks(reqs[r].req))

\* a malformed tiles value with an unknown font collection: 400, not 404
C3_Witness ==
    \E r \in Slots :
        /\ Done(r, "styles")
        /\ <<reqs[r].req.identifier, reqs[r].req.version, reqs[r].req.file>> \in DOMAIN styles_dict
        /\ DOMAIN reqs[r].req.args = {"tiles", "fonts"}
        /\ reqs[r].req.args["tiles"] = <<"counties">>
        /\ reqs[r].req.args["fonts"] = <<"fonts-gl", "@", "9">>
        /\ reqs[r].resp.status = 400

\* the (identifier, version) pairs of a family's catalog
FamilyKeys(family) ==
    IF family = "tiles" THEN DOMAIN mbtiles_dict
    ELSE IF family = "styles" THEN {<<k[1], k[2]>> : k \in DOMAIN styles_dict}
    ELSE IF family = "fonts" THEN DOMAIN fonts_dict
    ELSE {<<k[1], k[2]>> : k \in DOMAIN statics_dict}

\* C4: on every endpoint family a request whose (identifier, version) is not
\* in the family's catalog is answered 404.
C4_UnknownKeyIs404 ==
    \A r \in Slots : reqs[r].pc = "done" =>
        (<<reqs[r].req.identifier, reqs[r].req.version>> \notin FamilyKeys(reqs[r].req.family)
            => reqs[r].resp.status = 404)

\* an unknown style version with no query parameter at all
C4_Witness ==
    \E r \in Slots :
        /\ Done(r, "styles")
        /\ <<reqs[r].req.identifier, reqs[r].req.version>> \notin FamilyKeys("styles")
        /\ DOMAIN reqs[r].req.args = {}
        /\ reqs[r].resp.status = 404

\* C5: a font request with a '.' in its stack or its range is answered 404,
\* for a known and for an unknown collection, and opens no glyph file.
C5_DotIs404 ==
    \A r \in Slots :
        (Done(r, "fonts") /\ (contains(reqs[r].req.stack, ".") \/ contains(reqs[r].req.range, ".")))
            => (reqs[r].resp.status = 404 /\ reqs[r].opened = <<>>)

C5_Witness ==
    \E r \in Slots :
        /\ Done(r, "fonts")
        /\ <<reqs[r].req.identifier, reqs[r].req.version>> \in DOMAIN fonts_dict
        /\ reqs[r].req.stack = <<"Open Sans Regular", ".", "x">>
        /\ reqs[r].req.range = <<"0-255">>
        /\ reqs[r].resp.status = 404

\* the first name of a comma-separated stack
FirstFontName(stack) ==
    IF contains(stack, ",")
    THEN SubSeq(stack, 1, (CHOOSE i \in 1..Len(stack) :
                              stack[i] = "," /\ \A j \in 1..(i - 1) : stack[j] # ",") - 1)
    ELSE stack

\* C6 as stated: for a known collection and a stack and range without '.',
\* when the glyph file of (first font name, range) exists the answer is 200
\* with exactly that file's bytes, whatever the later names of the stack are.
C6_AsStated ==
    \A r \in Slots :
        LET q == reqs[r].req IN
        (/\ Done(r, "fonts")
         /\ <<q.identifier, q.version>> \in DOMAIN fonts_dict
         /\ ~contains(q.stack, ".") /\ ~contains(q.range, ".")
         /\ <<FirstFontName(q.stack), q.range \o <<".pbf.gz">> >> \in DOMAIN GlyphFiles)
        => /\ reqs[r].resp.status = 200
           /\ reqs[r].resp.body = GlyphFiles[<<FirstFontName(q.stack), q.range \o <<".pbf.gz">> >>]

\* C7 as stated: a font request that does not end in the glyph bytes is
\* answered 404; no failure of the lookup is answered 5xx.
C7_AsStated ==
    \A r \in Slots : Done(r, "fonts") =>
        (reqs[r].resp.status # 200 => reqs[r].resp.status = 404)

\* the place of the first separator of a key, 0 when it has none
FirstSeparator(key) ==
    LET at == {i \in 1..(Len(key) - 1) : key[i] = "_" /\ key[i + 1] = "_"}
    IN  IF at = {} THEN 0 ELSE CHOOSE i \in at : \A j \in at : i <= j

\* a key goes one level down when something follows its first separator
Nests(key) == FirstSeparator(key) # 0 /\ FirstSeparator(key) + 1 < Len(key)
Prefix(key) == SubSeq(key, 1, FirstSeparator(key) - 1)
Remainder(key) == SubSeq(key, FirstSeparator(key) + 2, Len(key))

\* the keys grouped at the level of a flat input
LevelKeys(items) ==
    {IF Nests(items[i][1]) THEN Prefix(items[i][1]) ELSE items[i][1] : i \in 1..Len(items)}

\* the flat input one level down, under a prefix
Below(items, prefix) ==
    LET kept == SelectSeq(items, LAMBDA item : Nests(item[1]) /\ Prefix(item[1]) = prefix)
    IN  [i \in 1..Len(kept) |-> <<Remainder(kept[i][1]), kept[i][2]>>]

\* what a key parses to as an integer, by the characters of the key
RECURSIVE Magnitude(_)
Magnitude(digits) ==
    IF digits = <<>> THEN 0
    ELSE IF Head(digits) = "_" THEN Magnitude(Tail(digits))
    ELSE DigitValue(Head(digits)) * 10^(Cardinality({i \in 2..Len(digits) : digits[i] # "_"}))
         + Magnitude(Tail(digits))
IntegerOf(key) ==
    IF Head(key) = "-" THEN 0 - Magnitude(Tail(key))
    ELSE IF Head(key) = "+" THEN Magnitude(Tail(key))
    ELSE Magnitude(key)

\* result is a right decoding of items at this level and below.  signed says
\* which keys count as integers: every key int() accepts (TRUE) or those
\* alone that it parses to a non-negative integer (FALSE)
RECURSIVE LevelOK(_, _, _)
LevelOK(items, result, signed) ==
    LET keys == LevelKeys(items)
        Integer(k) == is_int(k) /\ (signed \/ IntegerOf(k) >= 0)
        ElementOK(k, v) ==
            IF Below(items, k) # <<>>
            THEN LevelOK(Below(items, k), v, signed)
            ELSE \E i \in 1..Len(items) : items[i][1] = k /\ v = Str(items[i][2])
    IN  /\ result.type \in {"list", "dict"}
        /\ result.type = "list" <=> \A k \in keys : Integer(k)
        /\ result.type = "list" =>
              /\ Len(result.list) = Cardinality(keys)
              /\ \E order \in [1..Cardinality(keys) -> keys] :
                    /\ \A i, j \in 1..Cardinality(keys) : i # j => order[i] # order[j]
                    /\ \A i \in 1..Cardinality(keys) : ElementOK(order[i], result.list[i])
                    /\ \A i \in 1..(Cardinality(keys) - 1) :
                          IntegerOf(order[i]) <= IntegerOf(order[i + 1])
        /\ result.type = "dict" =>
              /\ Len(result.items) = Cardinality(keys)
              /\ {result.items[i][1] : i \in 1..Len(result.items)} = keys
              /\ \A i \in 1..Len(result.items) :
                    ElementOK(result.items[i][1], result.items[i][2])

\* C8 as stated: at every level the decoder emits a sequence sorted by
\* ascending integer key exactly when every key grouped there parses as a
\* non-negative base-10 integer, and a mapping of the grouped keys otherwise.
C8_AsStated == decoded # NotRun => LevelOK(key_values, decoded, FALSE)

\* C8, amended: at every level the decoder emits a sequence sorted by
\* ascending integer key exactly when every key grouped there is accepted by
\* int(), negative integers included, and a mapping of the grouped keys
\* otherwise.
C8_DecoderLevels == decoded # NotRun => LevelOK(key_values, decoded, TRUE)

\* the first example of the spec
C8_Witness ==
    /\ key_values = << <<<<"A", "_", "_", "0", "_", "_", "X">>, <<"1">> >>,
                       <<<<"A", "_", "_", "1", "_", "_", "X">>, <<"2">> >> >>
    /\ decoded = Dict(<< << <<"A">>,
                            List(<< Dict(<< << <<"X">>, Str(<<"1">>) >> >>),
                                    Dict(<< << <<"X">>, Str(<<"2">>) >> >>) >>) >> >>)

\* C9: once the termination signal has stopped the listener no connection
\* is accepted; every request then in flight comes to have its response;
\* the client is closed, the extracted directories are removed and the
\* shutdown is logged only when no request is in flight, the log last.
C9_GracefulShutdown ==
    /\ [][~listening => \A r \in Slots : ~InFlight(r) => ~InFlight(r)']_vars
    /\ [](\A r \in Slots : InFlight(r) =>
              (http_client = "open" /\ tempdirs # {} /\ log = <<>>))
    /\ []((http_client = "closed" \/ tempdirs = {}) => ~listening)
    /\ [](log # <<>> => (http_client = "closed" /\ tempdirs = {}))
    /\ \A r \in Slots :
          (~listening /\ InFlight(r)) ~> (reqs[r].pc = "done" /\ reqs[r].resp # NoResp)

\* the signal has come while one request awaits its remote read and another
\* has its response
C9_Witness ==
    /\ ~listening
    /\ main_pc = "join"
    /\ \E r1, r2 \in Slots :
          r1 # r2 /\ reqs[r1].pc = "querying" /\ reqs[r2].pc = "done"

\* C10: no step of a request changes the catalog or the shared client, and
\* two requests with the same inputs and the same outcome of their remote
\* reads have the same response, whatever was served before or beside them.
C10_RequestsIndependent ==
    /\ [][reqs' # reqs => (catalog' = catalog /\ http_client' = http_client)]_vars
    /\ [](\A r1, r2 \in Slots :
              (/\ reqs[r1].pc = "done" /\ reqs[r2].pc = "done"
               /\ reqs[r1].req = reqs[r2].req
               /\ reqs[r1].remote = reqs[r2].remote)
              => reqs[r1].resp = reqs[r2].resp)

\* two connections have been served the same style document side by side
C10_Witness ==
    \E r1, r2 \in Slots :
        /\ r1 # r2
        /\ Done(r1, "styles") /\ Done(r2, "styles")
        /\ reqs[r1].req = reqs[r2].req
        /\ reqs[r1].resp.status = 200
        /\ reqs[r1].resp = reqs[r2].resp

====
